---- MODULE Spec2Model ----
(***************************************************************************)
(* Model of the stock-sorter dashboard (src/unnamed/part_001): the App     *)
(* component's state and handlers, the sessionStorage cache, the network   *)
(* requests in flight, and the pure helpers filterStocks, sortStocks,      *)
(* getColumns and normalizeValue; and of the component with a field        *)
(* filter (src/src/App.tsx), whose definitions are named Variant....       *)
(*                                                                         *)
(* A JavaScript string is a sequence of one-character strings; a number is *)
(* a decimal fraction m / 10^e; a record (Stock) is a sequence of          *)
(* key/value fields in insertion order.                                    *)
(*                                                                         *)
(* One component instance is followed from its construction: its mount     *)
(* effect runs, and may be cleaned up and run again on the same instance   *)
(* (as React's development double invocation does).  A handler, together   *)
(* with the render that follows it, is one step.  A request that was       *)
(* aborted before it settled rejects with an AbortError; aborting a        *)
(* request that has settled does nothing.                                  *)
(*                                                                         *)
(* Spec is the component; LiveSpec adds that every request settles;        *)
(* HelperSpec calls the helpers directly on arguments from bounded sets;   *)
(* VariantSpec is the component of src/src/App.tsx.                        *)
(***************************************************************************)
EXTENDS Integers, Sequences, FiniteSets, TLC

VARIABLES
    stocks,         \* useState<Stock[]>([])
    loading,        \* useState(true)
    error,          \* useState('')
    query,          \* useState('')
    sortColumn,     \* useState('')
    sortDirection,  \* useState<SortDirection>('asc')
    view,           \* useState<ViewMode>('table')
    abortRef,       \* useRef<AbortController | null>(null): 0 or a request id
    reqs,           \* the fetch() calls issued so far, each pending/aborted/done
    mounted,        \* whether the mount effect is active (run and not cleaned up)
    filterKey,      \* src/src/App.tsx: useState("All")
    sort,           \* src/src/App.tsx: useState("default")
    development,    \* src/src/App.tsx: process.env.NODE_ENV === 'development'
    storage,        \* the sessionStorage item under STOCKS_CACHE_KEY
    now,            \* Date.now()
    last,           \* the operation that produced the state (history)
    args,           \* arguments of a direct call of a helper
    ret             \* result of a direct call of a helper

vars == <<stocks, loading, error, query, sortColumn, sortDirection, view,
          abortRef, reqs, mounted, filterKey, sort, development, storage, now,
          last, args, ret>>

\* what only the component of src/src/App.tsx has
variantVars == <<filterKey, sort, development>>

appVars == <<stocks, loading, error, query, sortColumn, sortDirection, view,
             abortRef, reqs, mounted, variantVars>>

(***************************************************************************)
(* Bounds of the model.                                                    *)
(***************************************************************************)
MaxRequests == 2    \* fetch() calls per behaviour
MaxTicks == 1       \* clock advances per behaviour
MaxRecords == 3     \* length of the record lists given to the helpers
MaxSorted == 4      \* length of the lists that are sorted on one column
MaxText == 4        \* length of the texts given to normalizeValue

(***************************************************************************)
(* Strings.                                                                *)
(***************************************************************************)
Lower(c) ==
    CASE c = "A" -> "a"
      [] c = "B" -> "b"
      [] c = "C" -> "c"
      [] c = "D" -> "d"
      [] c = "E" -> "e"
      [] c = "F" -> "f"
      [] c = "G" -> "g"
      [] c = "H" -> "h"
      [] c = "I" -> "i"
      [] c = "J" -> "j"
      [] c = "K" -> "k"
      [] c = "L" -> "l"
      [] c = "M" -> "m"
      [] c = "N" -> "n"
      [] c = "O" -> "o"
      [] c = "P" -> "p"
      [] c = "Q" -> "q"
      [] c = "R" -> "r"
      [] c = "S" -> "s"
      [] c = "T" -> "t"
      [] c = "U" -> "u"
      [] c = "V" -> "v"
      [] c = "W" -> "w"
      [] c = "X" -> "x"
      [] c = "Y" -> "y"
      [] c = "Z" -> "z"
      [] OTHER -> c

\* String.prototype.toLowerCase
ToLowerCase(s) == [i \in 1..Len(s) |-> Lower(s[i])]

IsSpace(c) == c = " "

RECURSIVE TrimStart(_)
TrimStart(s) ==
    IF s # <<>> /\ IsSpace(Head(s)) THEN TrimStart(Tail(s)) ELSE s

RECURSIVE TrimEnd(_)
TrimEnd(s) ==
    IF s # <<>> /\ IsSpace(s[Len(s)]) THEN TrimEnd(SubSeq(s, 1, Len(s) - 1)) ELSE s

\* String.prototype.trim
Trim(s) == TrimEnd(TrimStart(s))

\* whether needle occurs in hay at (0-based) position i
RECURSIVE MatchAt(_, _, _, _)
MatchAt(hay, needle, i, k) ==
    IF k > Len(needle) THEN TRUE
    ELSE IF i + k > Len(hay) THEN FALSE
    ELSE IF hay[i + k] # needle[k] THEN FALSE
    ELSE MatchAt(hay, needle, i, k + 1)

\* String.prototype.includes: scan the start positions from the left
RECURSIVE IncludesFrom(_, _, _)
IncludesFrom(hay, needle, i) ==
    IF i + Len(needle) > Len(hay) THEN FALSE
    ELSE IF MatchAt(hay, needle, i, 1) THEN TRUE
    ELSE IncludesFrom(hay, needle, i + 1)

Includes(hay, needle) == IncludesFrom(hay, needle, 0)

(***************************************************************************)
(* Values: string | number, and null or undefined for an absent value.     *)
(***************************************************************************)
Str(s) == [t |-> "str", s |-> s, m |-> 0, e |-> 0]
Num(m, e) == [t |-> "num", s |-> <<>>, m |-> m, e |-> e]   \* m / 10^e
Null == [t |-> "null", s |-> <<>>, m |-> 0, e |-> 0]              \* JSON null
Undefined == [t |-> "undefined", s |-> <<>>, m |-> 0, e |-> 0]    \* no such field

Digit(d) == <<"0", "1", "2", "3", "4", "5", "6", "7", "8", "9">>[d + 1]

RECURSIVE NatToString(_)
NatToString(n) ==
    IF n < 10 THEN <<Digit(n)>>
    ELSE Append(NatToString(n \div 10), Digit(n % 10))

RECURSIVE Pow10(_)
Pow10(e) == IF e = 0 THEN 1 ELSE 10 * Pow10(e - 1)

\* the e fraction digits of f, zero padded on the left
RECURSIVE FractionDigits(_, _)
FractionDigits(f, e) ==
    IF e = 0 THEN <<>>
    ELSE Append(FractionDigits(f \div 10, e - 1), Digit(f % 10))

\* Number::toString of m / 10^e (m not a multiple of 10 when e > 0)
NumberToString(m, e) ==
    LET a == IF m < 0 THEN -m ELSE m
        sign == IF m < 0 THEN <<"-">> ELSE <<>>
        int == NatToString(a \div Pow10(e))
    IN IF e = 0 THEN sign \o int
       ELSE sign \o int \o <<".">> \o FractionDigits(a % Pow10(e), e)

\* String(value ?? '')
StringOf(value) ==
    CASE value.t = "str" -> value.s
      [] value.t = "num" -> NumberToString(value.m, value.e)
      [] OTHER -> <<>>

(***************************************************************************)
(* Records.                                                                *)
(***************************************************************************)
Field(k, v) == [key |-> k, value |-> v]

\* Object.values(stock)
ObjectValues(stock) == [i \in 1..Len(stock) |-> stock[i].value]

\* Object.keys(stock)
ObjectKeys(stock) == [i \in 1..Len(stock) |-> stock[i].key]

\* stock[column]
Get(stock, column) ==
    IF \E i \in 1..Len(stock) : stock[i].key = column
    THEN stock[CHOOSE i \in 1..Len(stock) : stock[i].key = column].value
    ELSE Undefined

(***************************************************************************)
(* filterStocks                                                            *)
(***************************************************************************)
\* Array.prototype.join(' ')
RECURSIVE JoinWithBlank(_)
JoinWithBlank(values) ==
    IF values = <<>> THEN <<>>
    ELSE IF Len(values) = 1 THEN StringOf(Head(values))
    ELSE StringOf(Head(values)) \o <<" ">> \o JoinWithBlank(Tail(values))

\* (mutant) the query is searched in the values joined into one text
JoinedIncludes(values, normalized) ==
    Includes(ToLowerCase(JoinWithBlank(values)), normalized)

\* Array.prototype.some over the values, left to right
RECURSIVE SomeIncludes(_, _)
SomeIncludes(values, normalized) ==
    IF values = <<>> THEN FALSE
    ELSE IF Includes(ToLowerCase(StringOf(Head(values))), normalized) THEN TRUE
    ELSE SomeIncludes(Tail(values), normalized)

RECURSIVE FilterRecords(_, _)
FilterRecords(list, normalized) ==
    IF list = <<>> THEN <<>>
    ELSE IF SomeIncludes(ObjectValues(Head(list)), normalized)
         THEN <<Head(list)>> \o FilterRecords(Tail(list), normalized)
         ELSE FilterRecords(Tail(list), normalized)

\* (mutant) no early return for an empty query
filterStocksWithoutShortcut(list, q) ==
    FilterRecords(list, ToLowerCase(Trim(q)))

\* the array returned
filterStocks(list, q) ==
    LET normalized == ToLowerCase(Trim(q))
    IN IF Len(normalized) = 0 THEN list
       ELSE FilterRecords(list, normalized)

\* whether the array returned is the argument itself (return stocks) and
\* not a new array (stocks.filter)
filterStocksReturnsArgument(list, q) == Len(ToLowerCase(Trim(q))) = 0

\* the content of the argument after the call: filter and some write nothing
filterStocksArgument(list, q) == list

(***************************************************************************)
(* normalizeValue                                                          *)
(***************************************************************************)
IsDigit(c) == c \in {"0", "1", "2", "3", "4", "5", "6", "7", "8", "9"}

DigitValue(c) == CHOOSE d \in 0..9 : Digit(d) = c

\* UTF-16 code unit of the characters the model uses
Code(c) ==
    CASE c = " " -> 32 [] c = "$" -> 36 [] c = "%" -> 37 [] c = "," -> 44
      [] c = "-" -> 45 [] c = "." -> 46
      [] IsDigit(c) -> 48 + DigitValue(c)
      [] c = "A" -> 65 [] c = "B" -> 66 [] c = "P" -> 80 [] c = "R" -> 82
      [] c = "a" -> 97 [] c = "b" -> 98 [] c = "p" -> 112 [] c = "r" -> 114

\* s.replace(/[^\d,.\-]/g, '')
RECURSIVE KeepNumeric(_)
KeepNumeric(s) ==
    IF s = <<>> THEN <<>>
    ELSE IF IsDigit(Head(s)) \/ Head(s) \in {",", ".", "-"}
         THEN <<Head(s)>> \o KeepNumeric(Tail(s))
         ELSE KeepNumeric(Tail(s))

\* s.replace(/\./g, '')
RECURSIVE RemoveDots(_)
RemoveDots(s) ==
    IF s = <<>> THEN <<>>
    ELSE IF Head(s) = "." THEN RemoveDots(Tail(s))
    ELSE <<Head(s)>> \o RemoveDots(Tail(s))

\* s.replace(',', '.'): the first comma only
RECURSIVE ReplaceFirstComma(_)
ReplaceFirstComma(s) ==
    IF s = <<>> THEN <<>>
    ELSE IF Head(s) = "," THEN <<".">> \o Tail(s)
    ELSE <<Head(s)>> \o ReplaceFirstComma(Tail(s))

CountOf(s, c) == Cardinality({i \in 1..Len(s) : s[i] = c})

RECURSIVE DigitsValue(_)
DigitsValue(s) ==
    IF s = <<>> THEN 0
    ELSE 10 * DigitsValue(SubSeq(s, 1, Len(s) - 1)) + DigitValue(s[Len(s)])

NaN == [t |-> "nan", s |-> <<>>, m |-> 0, e |-> 0]

\* a number in lowest terms: no trailing zero in the fraction
RECURSIVE Reduce(_, _)
Reduce(m, e) ==
    IF e > 0 /\ m % 10 = 0 THEN Reduce(m \div 10, e - 1) ELSE Num(m, e)

\* Number(s) for a string of digits, commas, dots and minus signs (the
\* StringNumericLiteral grammar restricted to those characters): the empty
\* string is 0; otherwise an optional minus, then digits with at most one
\* dot and at least one digit; anything else is NaN
NumberOf(s) ==
    LET neg == s # <<>> /\ Head(s) = "-"
        body == IF neg THEN Tail(s) ELSE s
        dots == CountOf(body, ".")
        wellFormed == /\ \A i \in 1..Len(body) : IsDigit(body[i]) \/ body[i] = "."
                      /\ dots <= 1
                      /\ \E i \in 1..Len(body) : IsDigit(body[i])
        p == IF dots = 0 THEN Len(body) + 1
             ELSE CHOOSE i \in 1..Len(body) : body[i] = "."
        int == SubSeq(body, 1, p - 1)
        frac == SubSeq(body, p + 1, Len(body))
        mag == DigitsValue(int) * Pow10(Len(frac)) + DigitsValue(frac)
    IN IF s = <<>> THEN Num(0, 0)
       ELSE IF ~wellFormed THEN NaN
       ELSE Reduce(IF neg THEN -mag ELSE mag, Len(frac))

\* (mutant) with a comma and dots, the dots are kept
normalizeValueKeepingDots(value) ==
    IF value.t = "num" THEN value
    ELSE IF value.t = "str" THEN
        LET trimmed == Trim(value.s)
            numericCandidate == KeepNumeric(trimmed)
            hasComma == CountOf(numericCandidate, ",") > 0
            dotCount == CountOf(numericCandidate, ".")
            normalized ==
                IF hasComma THEN ReplaceFirstComma(numericCandidate)
                ELSE IF dotCount > 1 THEN RemoveDots(numericCandidate)
                ELSE numericCandidate
            parsed == NumberOf(normalized)
        IN IF Len(numericCandidate) > 0 /\ parsed.t # "nan"
           THEN parsed
           ELSE Str(ToLowerCase(trimmed))
    ELSE Str(<<>>)

normalizeValue(value) ==
    IF value.t = "num" THEN value
    ELSE IF value.t = "str" THEN
        LET trimmed == Trim(value.s)
            numericCandidate == KeepNumeric(trimmed)
            hasComma == CountOf(numericCandidate, ",") > 0
            hasDot == CountOf(numericCandidate, ".") > 0
            dotCount == CountOf(numericCandidate, ".")
            normalized ==
                IF hasComma /\ hasDot
                THEN ReplaceFirstComma(RemoveDots(numericCandidate))
                ELSE IF hasComma THEN ReplaceFirstComma(numericCandidate)
                ELSE IF dotCount > 1 THEN RemoveDots(numericCandidate)
                ELSE numericCandidate
            parsed == NumberOf(normalized)
        IN IF Len(numericCandidate) > 0 /\ parsed.t # "nan"
           THEN parsed
           ELSE Str(ToLowerCase(trimmed))
    ELSE Str(<<>>)

(***************************************************************************)
(* sortStocks                                                              *)
(***************************************************************************)
\* string < string: by code units, a proper prefix first
RECURSIVE StringLess(_, _)
StringLess(a, b) ==
    IF b = <<>> THEN FALSE
    ELSE IF a = <<>> THEN TRUE
    ELSE IF Code(Head(a)) # Code(Head(b)) THEN Code(Head(a)) < Code(Head(b))
    ELSE StringLess(Tail(a), Tail(b))

\* ToNumber of a normalized value (a string is trimmed and parsed)
ToNumber(v) == IF v.t = "num" THEN v ELSE NumberOf(Trim(v.s))

\* the < operator between two normalized values: two strings compare as
\* strings; otherwise both become numbers, and NaN is less than nothing
JsLess(a, b) ==
    IF a.t = "str" /\ b.t = "str" THEN StringLess(a.s, b.s)
    ELSE LET x == ToNumber(a)
             y == ToNumber(b)
         IN IF x.t = "nan" \/ y.t = "nan" THEN FALSE
            ELSE x.m * Pow10(y.e) < y.m * Pow10(x.e)

\* (mutant) the comparator without the direction: always ascending
CompareAscending(left, right, column, direction) ==
    LET leftValue == normalizeValue(Get(left, column))
        rightValue == normalizeValue(Get(right, column))
    IN IF JsLess(leftValue, rightValue) THEN -1
       ELSE IF JsLess(rightValue, leftValue) THEN 1
       ELSE 0

\* the comparator handed to sort
Compare(left, right, column, direction) ==
    LET isAsc == direction = "asc"
        leftValue == normalizeValue(Get(left, column))
        rightValue == normalizeValue(Get(right, column))
    IN IF JsLess(leftValue, rightValue) THEN (IF isAsc THEN -1 ELSE 1)
       ELSE IF JsLess(rightValue, leftValue) THEN (IF isAsc THEN 1 ELSE -1)
       ELSE 0

\* insert x into the sorted prefix, after every element that does not
\* compare greater than it
RECURSIVE InsertSorted(_, _, _, _)
InsertSorted(sorted, x, column, direction) ==
    IF sorted = <<>> THEN <<x>>
    ELSE IF Compare(sorted[Len(sorted)], x, column, direction) > 0
         THEN Append(InsertSorted(SubSeq(sorted, 1, Len(sorted) - 1), x,
                                  column, direction),
                     sorted[Len(sorted)])
         ELSE Append(sorted, x)

\* Array.prototype.sort (stable): insertion sort, left to right
RECURSIVE ArraySort(_, _, _)
ArraySort(list, column, direction) ==
    IF list = <<>> THEN <<>>
    ELSE InsertSorted(ArraySort(SubSeq(list, 1, Len(list) - 1), column, direction),
                      list[Len(list)], column, direction)

\* the (0-based) place of x in the sorted prefix, found by bisection between
\* left and right: after every element that x does not compare less than
RECURSIVE BinarySearch(_, _, _, _, _, _)
BinarySearch(sorted, x, left, right, column, direction) ==
    IF left >= right THEN left
    ELSE LET mid == left + ((right - left) \div 2)
         IN IF Compare(x, sorted[mid + 1], column, direction) < 0
            THEN BinarySearch(sorted, x, left, mid, column, direction)
            ELSE BinarySearch(sorted, x, mid + 1, right, column, direction)

BinaryInsertSorted(sorted, x, column, direction) ==
    LET at == BinarySearch(sorted, x, 0, Len(sorted), column, direction)
    IN SubSeq(sorted, 1, at) \o <<x>> \o SubSeq(sorted, at + 1, Len(sorted))

\* Array.prototype.sort (stable): binary insertion sort, left to right
RECURSIVE ArraySortBinary(_, _, _)
ArraySortBinary(list, column, direction) ==
    IF list = <<>> THEN <<>>
    ELSE BinaryInsertSorted(ArraySortBinary(SubSeq(list, 1, Len(list) - 1),
                                            column, direction),
                            list[Len(list)], column, direction)

\* merge of two sorted lists: on a tie the element of the left list first
RECURSIVE Merge(_, _, _, _)
Merge(l, r, column, direction) ==
    IF l = <<>> THEN r
    ELSE IF r = <<>> THEN l
    ELSE IF Compare(Head(r), Head(l), column, direction) < 0
         THEN <<Head(r)>> \o Merge(l, Tail(r), column, direction)
         ELSE <<Head(l)>> \o Merge(Tail(l), r, column, direction)

\* Array.prototype.sort (stable): merge sort
RECURSIVE ArraySortMerge(_, _, _)
ArraySortMerge(list, column, direction) ==
    IF Len(list) < 2 THEN list
    ELSE LET m == Len(list) \div 2
         IN Merge(ArraySortMerge(SubSeq(list, 1, m), column, direction),
                  ArraySortMerge(SubSeq(list, m + 1, Len(list)), column, direction),
                  column, direction)

\* Array.prototype.sort is a stable sort, and the order it gives is left to
\* the implementation when the comparator is not consistent (here: when a
\* column mixes numbers with text, which compare as equal to every number).
\* Three stable sorts stand for the implementations; they agree whenever
\* the comparator is consistent.
Engines == {"insertion", "binary", "merge"}

ArraySortBy(engine, list, column, direction) ==
    CASE engine = "binary" -> ArraySortBinary(list, column, direction)
      [] engine = "merge" -> ArraySortMerge(list, column, direction)
      [] OTHER -> ArraySort(list, column, direction)

\* (mutant) no early return for an empty column
sortStocksWithoutShortcut(engine, list, column, direction) ==
    ArraySortBy(engine, list, column, direction)

\* the array returned, always a new one, under a given implementation of sort
sortStocksBy(engine, list, column, direction) ==
    IF column = "" THEN list
    ELSE ArraySortBy(engine, list, column, direction)

\* whether the array returned is the argument itself: never, [...stocks] is
\* a copy on either path
sortStocksReturnsArgument(list, column, direction) == FALSE

\* The same for the lists the component holds, which have at most two
\* records here: every stable sort gives the same order for them.
sortStocks(list, column, direction) ==
    sortStocksBy("insertion", list, column, direction)

\* (mutant) stocks.sort(...) without the copy: the argument is sorted
sortStocksInPlace(list, column, direction) == sortStocks(list, column, direction)

\* the content of the argument after the call: [...stocks] is a copy, and
\* sort works in place on that copy
sortStocksArgument(list, column, direction) == list

(***************************************************************************)
(* getColumns                                                              *)
(***************************************************************************)
\* set.add for each key not yet in the set, in order
RECURSIVE AddKeys(_, _)
AddKeys(set, keys) ==
    IF keys = <<>> THEN set
    ELSE IF \E i \in 1..Len(set) : set[i] = Head(keys)
         THEN AddKeys(set, Tail(keys))
         ELSE AddKeys(Append(set, Head(keys)), Tail(keys))

RECURSIVE CollectKeys(_, _)
CollectKeys(set, list) ==
    IF list = <<>> THEN set
    ELSE CollectKeys(AddKeys(set, ObjectKeys(Head(list))), Tail(list))

\* (mutant) the keys of the first record only
getColumnsOfFirst(list) ==
    IF list = <<>> THEN <<>> ELSE AddKeys(<<>>, ObjectKeys(Head(list)))

getColumns(list) == CollectKeys(<<>>, list)

(***************************************************************************)
(* The sessionStorage cache.                                               *)
(***************************************************************************)
STOCKS_CACHE_TTL == 5 * 60 * 1000

\* The item under STOCKS_CACHE_KEY: none (getItem gives null), the empty
\* string, text that JSON.parse rejects, the JSON text null, or a JSON object
\* that may or may not carry a numeric timestamp and an array of stocks.
Item(kind, tsIsNumber, timestamp, stocksIsArray, list) ==
    [kind |-> kind, tsIsNumber |-> tsIsNumber, timestamp |-> timestamp,
     stocksIsArray |-> stocksIsArray, stocks |-> list]

NoItem == Item("none", FALSE, 0, FALSE, <<>>)
EmptyItem == Item("empty", FALSE, 0, FALSE, <<>>)
GarbageItem == Item("garbage", FALSE, 0, FALSE, <<>>)
JsonNullItem == Item("null", FALSE, 0, FALSE, <<>>)
Entry(timestamp, list) == Item("object", TRUE, timestamp, TRUE, list)

removeStocksCache(item) == NoItem

Miss(item) == [hit |-> FALSE, stocks |-> <<>>, storage |-> item]

\* (mutant) an entry expires when its age reaches the time to live
readStocksCacheExpiringAtTtl(item, t) ==
    IF item.kind \in {"none", "empty"} THEN Miss(item)
    ELSE IF item.kind \in {"garbage", "null"}
         THEN Miss(removeStocksCache(item))
    ELSE IF ~item.tsIsNumber \/ ~item.stocksIsArray
         THEN Miss(removeStocksCache(item))
    ELSE IF t - item.timestamp >= STOCKS_CACHE_TTL
         THEN Miss(removeStocksCache(item))
    ELSE [hit |-> TRUE, stocks |-> item.stocks, storage |-> item]

\* hit/stocks: the value returned (null is hit = FALSE); storage: the item
\* left in sessionStorage
readStocksCache(item, t) ==
    IF item.kind \in {"none", "empty"} THEN Miss(item)              \* !raw
    ELSE IF item.kind \in {"garbage", "null"}                       \* catch
         THEN Miss(removeStocksCache(item))
    ELSE IF ~item.tsIsNumber \/ ~item.stocksIsArray
         THEN Miss(removeStocksCache(item))
    ELSE IF t - item.timestamp > STOCKS_CACHE_TTL
         THEN Miss(removeStocksCache(item))
    ELSE [hit |-> TRUE, stocks |-> item.stocks, storage |-> item]

\* JSON.parse(JSON.stringify(stock)): a field whose value is undefined is
\* not written
JsonStock(stock) == SelectSeq(stock, LAMBDA f : f.value.t # "undefined")

JsonStocks(list) == [i \in 1..Len(list) |-> JsonStock(list[i])]

\* (mutant) a write that fails leaves the item that was there
writeStocksCacheKeepingItem(item, list, t, quota) ==
    IF quota THEN item
    ELSE Entry(t, JsonStocks(list))

\* the item left in sessionStorage; quota: whether setItem throws
writeStocksCache(item, list, t, quota) ==
    IF quota THEN removeStocksCache(item)
    ELSE Entry(t, JsonStocks(list))

(***************************************************************************)
(* The App component.                                                      *)
(***************************************************************************)
\* what the endpoint may answer: a JSON array of records, a JSON value that
\* is no array, a status outside 2xx, a body that is no JSON, or no answer
\* at all (fetch rejects with a TypeError)
StockA == <<Field("papel", Str(<<"A", "b">>)), Field("pl", Str(<<"1", ",", "5">>))>>
StockB == <<Field("papel", Str(<<"b">>)), Field("", Num(3, 0))>>

Payloads == {<<>>, <<StockA, StockB>>, <<StockB>>}

Responses ==
    [kind : {"array"}, payload : Payloads, quota : BOOLEAN]
    \cup [kind : {"nonArray", "http", "json", "network"}, payload : {<<>>},
          quota : {FALSE}]

\* the message of the Error the promise chain rejects with
Message(kind) ==
    CASE kind = "http" -> "Fundamentus API 500"
      [] kind = "json" -> "Unexpected token < in JSON at position 0"
      [] kind = "network" -> "Failed to fetch"

\* what the user may type in the search field
Queries == {<<>>, <<"A">>}

\* the clock starts one tick after the epoch of the oldest stored entry
StartTime == STOCKS_CACHE_TTL + 1
TickMs == STOCKS_CACHE_TTL \div 2

\* what a previous page load may have left in sessionStorage
StoredItems == {NoItem, GarbageItem, Entry(1, <<StockB>>)}

Op(op, id, kind) == [op |-> op, id |-> id, kind |-> kind]

NoCall == [fn |-> "none"]

\* useMemo: the derived lists of a render
filteredStocks == filterStocks(stocks, query)
sortedStocks == sortStocks(filteredStocks, sortColumn, sortDirection)
columns == getColumns(sortedStocks)

\* The content of the stocks array after a render has recomputed the memos
\* over it: filterStocks is given the array itself, and sortStocks is given
\* what filterStocks returned, which is the same array when the query is
\* empty.
Render(list, q, column, direction) ==
    LET filtered == filterStocksArgument(list, q)
    IN IF filterStocksReturnsArgument(list, q)
       THEN sortStocksArgument(filtered, column, direction)
       ELSE filtered

\* (mutant) the request in flight is left running
abortNothing(rs, ref) == rs

\* abortRef.current?.abort()
abort(rs, ref) ==
    IF ref = 0 THEN rs
    ELSE [rs EXCEPT ![ref] = IF @ = "pending" THEN "aborted" ELSE @]

AppInit ==
    /\ stocks = <<>>
    /\ loading = TRUE
    /\ error = ""
    /\ query = <<>>
    /\ sortColumn = ""
    /\ sortDirection = "asc"
    /\ view = "table"
    /\ abortRef = 0
    /\ reqs = <<>>
    /\ mounted = FALSE
    /\ filterKey = "All"
    /\ sort = "default"
    /\ development = FALSE

Init ==
    /\ AppInit
    /\ storage \in StoredItems
    /\ now = StartTime
    /\ last = Op("init", 0, "")
    /\ args = NoCall
    /\ ret = NoCall

\* (mutant) a refresh is served from the cache as well
cacheLookupAlways(bypassCache, item, t) == readStocksCache(item, t)

\* the cache lookup that opens fetchStocks
cacheLookup(bypassCache, item, t) ==
    IF bypassCache THEN Miss(item) ELSE readStocksCache(item, t)

fetchStocks(bypassCache, op) ==
    LET cached == cacheLookup(bypassCache, storage, now)
        id == Len(reqs) + 1
    IN IF cached.hit
       THEN /\ error' = ""
            /\ stocks' = Render(cached.stocks, query, sortColumn, sortDirection)
            /\ loading' = FALSE
            /\ storage' = cached.storage
            /\ last' = Op(op, 0, "hit")
            /\ UNCHANGED <<abortRef, reqs>>
       ELSE /\ Len(reqs) < MaxRequests
            /\ loading' = TRUE
            /\ error' = ""
            /\ reqs' = Append(abort(reqs, abortRef), "pending")
            /\ abortRef' = id
            /\ storage' = cached.storage
            /\ last' = Op(op, id, IF bypassCache THEN "bypass" ELSE "miss")
            /\ UNCHANGED stocks

\* useEffect(() => { fetchStocks(); ... }, [])
Mount ==
    /\ ~mounted
    /\ mounted' = TRUE
    /\ fetchStocks(FALSE, "mount")
    /\ UNCHANGED <<query, sortColumn, sortDirection, view, now, args, ret,
                   variantVars>>

\* the effect's cleanup
Cleanup ==
    /\ mounted
    /\ mounted' = FALSE
    /\ reqs' = abort(reqs, abortRef)
    /\ last' = Op("cleanup", abortRef, "")
    /\ UNCHANGED <<stocks, loading, error, query, sortColumn, sortDirection,
                   view, abortRef, storage, now, args, ret,
                   variantVars>>

\* Header: the Refresh button carries disabled={loading}
RefreshDisabled == loading

\* Header: onRefresh
Refresh ==
    /\ mounted
    /\ ~RefreshDisabled
    /\ fetchStocks(TRUE, "refresh")
    /\ UNCHANGED <<mounted, query, sortColumn, sortDirection, view, now, args, ret,
                   variantVars>>

\* (mutant) a payload that is no array leaves the cache entry in place
settleKeepingCache(resp, aborted, list, message, item, busy, t) ==
    LET state == [stocks |-> list, error |-> message, storage |-> item,
                  loading |-> FALSE]
    IN IF aborted THEN state
       ELSE CASE resp.kind = "array" ->
                   [state EXCEPT !.stocks = resp.payload,
                                 !.storage = writeStocksCache(item, resp.payload, t,
                                                              resp.quota)]
              [] resp.kind = "nonArray" ->
                   [state EXCEPT !.stocks = <<>>]
              [] OTHER ->
                   [state EXCEPT !.error = Message(resp.kind)]

\* (mutant) the early return for an AbortError also skips setLoading(false)
settleWithoutFinally(resp, aborted, list, message, item, busy, t) ==
    LET state == [stocks |-> list, error |-> message, storage |-> item,
                  loading |-> FALSE]
    IN IF aborted THEN [state EXCEPT !.loading = busy]
       ELSE CASE resp.kind = "array" ->
                   [state EXCEPT !.stocks = resp.payload,
                                 !.storage = writeStocksCache(item, resp.payload, t,
                                                              resp.quota)]
              [] resp.kind = "nonArray" ->
                   [state EXCEPT !.stocks = <<>>,
                                 !.storage = removeStocksCache(item)]
              [] OTHER ->
                   [state EXCEPT !.error = Message(resp.kind)]

\* What the promise chain of a request does when it settles with resp (then,
\* then, catch, finally), given the record list, the error message, the
\* stored item and the loading flag of the moment: the values it leaves. An
\* aborted request rejects with an AbortError.
settle(resp, aborted, list, message, item, busy, t) ==
    LET state == [stocks |-> list, error |-> message, storage |-> item,
                  loading |-> FALSE]                            \* finally
    IN IF aborted THEN state
       ELSE CASE resp.kind = "array" ->
                   [state EXCEPT !.stocks = resp.payload,
                                 !.storage = writeStocksCache(item, resp.payload, t,
                                                              resp.quota)]
              [] resp.kind = "nonArray" ->
                   [state EXCEPT !.stocks = <<>>,
                                 !.storage = removeStocksCache(item)]
              [] OTHER ->
                   [state EXCEPT !.error = Message(resp.kind)]

Settle(r, resp) ==
    LET aborted == reqs[r] = "aborted"
        new == settle(resp, aborted, stocks, error, storage, loading, now)
    IN /\ reqs' = [reqs EXCEPT ![r] = "done"]
       /\ stocks' = Render(new.stocks, query, sortColumn, sortDirection)
       /\ error' = new.error
       /\ storage' = new.storage
       /\ loading' = new.loading
       /\ last' = Op("settle", r, IF aborted THEN "abort" ELSE resp.kind)
       /\ UNCHANGED <<query, sortColumn, sortDirection, view, abortRef, mounted,
                      now, args, ret,
                   variantVars>>

\* an aborted fetch rejects with an AbortError whatever the endpoint would
\* have answered, so one response stands for all of them
SettleRequest(r) ==
    /\ r \in 1..Len(reqs)
    /\ reqs[r] # "done"
    /\ \E resp \in IF reqs[r] = "aborted"
                    THEN {[kind |-> "network", payload |-> <<>>, quota |-> FALSE]}
                    ELSE Responses :
          Settle(r, resp)

Complete == \E r \in 1..MaxRequests : SettleRequest(r)

\* Toolbar: onQuery
OnQuery(q) ==
    /\ mounted
    /\ query' = q
    /\ stocks' = Render(stocks, q, sortColumn, sortDirection)
    /\ last' = Op("onQuery", 0, "")
    /\ UNCHANGED <<loading, error, sortColumn, sortDirection, view, abortRef,
                   reqs, mounted, storage, now, args, ret,
                   variantVars>>

\* ViewToggle: onChange
OnView(mode) ==
    /\ mounted
    /\ view' = mode
    /\ stocks' = Render(stocks, query, sortColumn, sortDirection)
    /\ last' = Op("onView", 0, mode)
    /\ UNCHANGED <<loading, error, query, sortColumn, sortDirection, abortRef,
                   reqs, mounted, storage, now, args, ret,
                   variantVars>>

\* the new <<sortColumn, sortDirection>>
handleSort(column, current, direction) ==
    IF column # current THEN <<column, "asc">>
    ELSE IF direction = "desc" THEN <<"", "asc">>
    ELSE <<current, IF direction = "asc" THEN "desc" ELSE "asc">>

\* StocksTable: a click on the header of a column, shown when the table is
HandleSort(column) ==
    /\ mounted
    /\ ~loading
    /\ Len(sortedStocks) # 0
    /\ view = "table"
    /\ \E i \in 1..Len(columns) : columns[i] = column
    /\ LET new == handleSort(column, sortColumn, sortDirection)
       IN /\ sortColumn' = new[1]
          /\ sortDirection' = new[2]
          /\ stocks' = Render(stocks, query, new[1], new[2])
    /\ last' = Op("handleSort", 0, column)
    /\ UNCHANGED <<loading, error, query, view, abortRef, reqs, mounted,
                   storage, now, args, ret,
                   variantVars>>

\* EmptyState: onReset, shown when nothing is left to display
HandleReset ==
    /\ mounted
    /\ ~loading
    /\ Len(sortedStocks) = 0
    /\ query' = <<>>
    /\ sortColumn' = ""
    /\ sortDirection' = "asc"
    /\ stocks' = Render(stocks, <<>>, "", "asc")
    /\ last' = Op("handleReset", 0, "")
    /\ UNCHANGED <<loading, error, view, abortRef, reqs, mounted, storage,
                   now, args, ret,
                   variantVars>>

\* time passes
Tick ==
    /\ now < StartTime + MaxTicks * TickMs
    /\ now' = now + TickMs
    /\ last' = Op("tick", 0, "")
    /\ UNCHANGED <<appVars, storage, args, ret>>

Next ==
    \/ Mount
    \/ Cleanup
    \/ Refresh
    \/ Complete
    \/ \E q \in Queries : OnQuery(q)
    \/ \E mode \in {"cards", "table"} : OnView(mode)
    \/ \E column \in {"", "papel", "pl"} : HandleSort(column)
    \/ HandleReset
    \/ Tick

Spec == Init /\ [][Next]_vars

\* every request that was issued settles in the end
LiveSpec == Spec /\ \A r \in 1..MaxRequests : WF_vars(SettleRequest(r))

(***************************************************************************)
(* The component with a field filter (src/src/App.tsx).                    *)
(***************************************************************************)
\* value || "": what counts as false
Falsy(value) ==
    \/ value.t \in {"null", "undefined"}
    \/ value.t = "str" /\ value.s = <<>>
    \/ value.t = "num" /\ value.m = 0

\* String(value || "")
StringOrEmpty(value) == IF Falsy(value) THEN <<>> ELSE StringOf(value)

\* the callback of stocks.filter in the filtered memo; q is the query,
\* trimmed and in lower case
VariantKeeps(stock, q, key) ==
    IF key # "All"
    THEN Includes(ToLowerCase(StringOrEmpty(Get(stock, key))), q)
    ELSE IF q = <<>> THEN TRUE
    ELSE Includes(ToLowerCase(JoinWithBlank(ObjectValues(stock))), q)

\* arr of the filtered memo
VariantFilter(list, text, key) ==
    LET q == ToLowerCase(Trim(text))
    IN SelectSeq(list, LAMBDA stock : VariantKeeps(stock, q, key))

\* The memo goes on to sortStocks(arr, sort), which returns arr or a sorted
\* copy of it: the same records, and as many.
arr == VariantFilter(stocks, query, filterKey)

\* the options of the field selector
filterKeys ==
    IF Len(stocks) = 0 THEN <<"All">> ELSE <<"All">> \o ObjectKeys(stocks[1])

\* the mock data of the catch handler
MockData ==
    <<
      <<Field("Papel", Str(<<"P", "E", "T", "R", "4">>)),
         Field("Cotação", Str(<<"R", "$", " ", "3", "8", ".", "5", "0">>)),
         Field("P/L", Str(<<"5", ".", "2">>)),
         Field("P/VP", Str(<<"1", ".", "1">>)),
         Field("Div.Yield", Str(<<"1", "2", ".", "5", "%">>)),
         Field("Setor", Str(<<"P", "e", "t", "r", "ó", "l", "e", "o">>))>>,
      <<Field("Papel", Str(<<"V", "A", "L", "E", "3">>)),
         Field("Cotação", Str(<<"R", "$", " ", "6", "5", ".", "2", "0">>)),
         Field("P/L", Str(<<"4", ".", "8">>)),
         Field("P/VP", Str(<<"0", ".", "9">>)),
         Field("Div.Yield", Str(<<"1", "0", ".", "2", "%">>)),
         Field("Setor", Str(<<"M", "i", "n", "e", "r", "a", "ç", "ã", "o">>))>>,
      <<Field("Papel", Str(<<"I", "T", "U", "B", "4">>)),
         Field("Cotação", Str(<<"R", "$", " ", "2", "8", ".", "9", "0">>)),
         Field("P/L", Str(<<"6", ".", "5">>)),
         Field("P/VP", Str(<<"1", ".", "8">>)),
         Field("Div.Yield", Str(<<"8", ".", "5", "%">>)),
         Field("Setor", Str(<<"B", "a", "n", "c", "o", "s">>))>>,
      <<Field("Papel", Str(<<"B", "B", "D", "C", "4">>)),
         Field("Cotação", Str(<<"R", "$", " ", "1", "5", ".", "4", "0">>)),
         Field("P/L", Str(<<"7", ".", "2">>)),
         Field("P/VP", Str(<<"1", ".", "5">>)),
         Field("Div.Yield", Str(<<"7", ".", "8", "%">>)),
         Field("Setor", Str(<<"B", "a", "n", "c", "o", "s">>))>>,
      <<Field("Papel", Str(<<"A", "B", "E", "V", "3">>)),
         Field("Cotação", Str(<<"R", "$", " ", "1", "2", ".", "3", "0">>)),
         Field("P/L", Str(<<"1", "5", ".", "3">>)),
         Field("P/VP", Str(<<"3", ".", "2">>)),
         Field("Div.Yield", Str(<<"6", ".", "5", "%">>)),
         Field("Setor", Str(<<"B", "e", "b", "i", "d", "a", "s">>))>>,
      <<Field("Papel", Str(<<"W", "E", "G", "E", "3">>)),
         Field("Cotação", Str(<<"R", "$", " ", "4", "2", ".", "1", "0">>)),
         Field("P/L", Str(<<"2", "8", ".", "5">>)),
         Field("P/VP", Str(<<"8", ".", "5">>)),
         Field("Div.Yield", Str(<<"1", ".", "2", "%">>)),
         Field("Setor", Str(<<"M", "á", "q", "u", "i", "n", "a", "s">>))>>
    >>

VariantResponses ==
    [kind : {"array"}, payload : Payloads]
    \cup [kind : {"nonArray", "http", "json", "network"}, payload : {<<>>}]

\* e.message of what the promise chain rejects with; an aborted fetch
\* rejects with an AbortError, whose message is not empty
VariantMessage(kind) ==
    CASE kind = "http" -> "API 500"
      [] kind = "json" -> "Unexpected token < in JSON at position 0"
      [] kind = "network" -> "Failed to fetch"
      [] kind = "abort" -> "signal is aborted without reason"

VariantInit ==
    /\ stocks = <<>>
    /\ loading = FALSE
    /\ error = ""
    /\ query = <<>>
    /\ filterKey = "All"
    /\ sort = "default"
    /\ view = "cards"
    /\ abortRef = 0
    /\ reqs = <<>>
    /\ mounted = FALSE
    /\ development \in BOOLEAN
    /\ sortColumn = ""
    /\ sortDirection = "asc"
    /\ storage = NoItem
    /\ now = StartTime
    /\ last = Op("init", 0, "")
    /\ args = NoCall
    /\ ret = NoCall

\* what no step of this component changes
variantFrame == <<sortColumn, sortDirection, storage, now, args, ret, development>>

VariantFetchStocks(op) ==
    LET id == Len(reqs) + 1
    IN /\ Len(reqs) < MaxRequests
       /\ loading' = TRUE
       /\ error' = ""
       /\ reqs' = Append(abort(reqs, abortRef), "pending")
       /\ abortRef' = id
       /\ last' = Op(op, id, "")
       /\ UNCHANGED <<stocks, query, filterKey, sort, view, variantFrame>>

\* useEffect(() => { fetchStocks(); ... }, [])
VariantMount ==
    /\ ~mounted
    /\ mounted' = TRUE
    /\ VariantFetchStocks("mount")

\* the effect's cleanup
VariantCleanup ==
    /\ mounted
    /\ mounted' = FALSE
    /\ reqs' = abort(reqs, abortRef)
    /\ last' = Op("cleanup", abortRef, "")
    /\ UNCHANGED <<stocks, loading, error, query, filterKey, sort, view, abortRef,
                   variantFrame>>

\* Header: onRefresh, on a button with disabled={loading}
VariantRefresh ==
    /\ mounted
    /\ ~loading
    /\ VariantFetchStocks("refresh")
    /\ UNCHANGED mounted

\* What the promise chain of a request does when it settles (then, then,
\* catch, finally): the catch handles every rejection, that of an aborted
\* request included.
VariantSettled(resp, aborted, list, message, dev) ==
    LET state == [stocks |-> list, error |-> message, loading |-> FALSE]
        kind == IF aborted THEN "abort" ELSE resp.kind
    IN CASE kind = "array" -> [state EXCEPT !.stocks = resp.payload]
         [] kind = "nonArray" -> [state EXCEPT !.stocks = <<>>]
         [] OTHER -> [state EXCEPT !.error = VariantMessage(kind),
                                   !.stocks = IF dev THEN MockData ELSE list]

VariantSettle(r, resp) ==
    LET aborted == reqs[r] = "aborted"
        new == VariantSettled(resp, aborted, stocks, error, development)
    IN /\ reqs' = [reqs EXCEPT ![r] = "done"]
       /\ stocks' = new.stocks
       /\ error' = new.error
       /\ loading' = new.loading
       /\ last' = Op("settle", r, IF aborted THEN "abort" ELSE resp.kind)
       /\ UNCHANGED <<query, filterKey, sort, view, abortRef, mounted, variantFrame>>

VariantSettleRequest(r) ==
    /\ r \in 1..Len(reqs)
    /\ reqs[r] # "done"
    /\ \E resp \in VariantResponses : VariantSettle(r, resp)

VariantComplete == \E r \in 1..MaxRequests : VariantSettleRequest(r)

\* Toolbar: onQuery
VariantOnQuery(q) ==
    /\ mounted
    /\ query' = q
    /\ last' = Op("onQuery", 0, "")
    /\ UNCHANGED <<stocks, loading, error, filterKey, sort, view, abortRef, reqs,
                   mounted, variantFrame>>

\* Toolbar: onFilterKey, with one of the options offered
VariantOnFilterKey(key) ==
    /\ mounted
    /\ \E i \in 1..Len(filterKeys) : filterKeys[i] = key
    /\ filterKey' = key
    /\ last' = Op("onFilterKey", 0, key)
    /\ UNCHANGED <<stocks, loading, error, query, sort, view, abortRef, reqs,
                   mounted, variantFrame>>

\* Toolbar: onSort
VariantOnSort(key) ==
    /\ mounted
    /\ sort' = key
    /\ last' = Op("onSort", 0, key)
    /\ UNCHANGED <<stocks, loading, error, query, filterKey, view, abortRef, reqs,
                   mounted, variantFrame>>

\* Toggle: onView
VariantOnView(mode) ==
    /\ mounted
    /\ view' = mode
    /\ last' = Op("onView", 0, mode)
    /\ UNCHANGED <<stocks, loading, error, query, filterKey, sort, abortRef, reqs,
                   mounted, variantFrame>>

\* EmptyState: onReset, shown when nothing is left to display
VariantReset ==
    /\ mounted
    /\ ~loading
    /\ Len(arr) = 0
    /\ query' = <<>>
    /\ filterKey' = "All"
    /\ sort' = "default"
    /\ last' = Op("onReset", 0, "")
    /\ UNCHANGED <<stocks, loading, error, view, abortRef, reqs, mounted,
                   variantFrame>>

VariantNext ==
    \/ VariantMount
    \/ VariantCleanup
    \/ VariantRefresh
    \/ VariantComplete
    \/ \E q \in Queries : VariantOnQuery(q)
    \/ \E key \in {"All", "papel", "pl", ""} : VariantOnFilterKey(key)
    \/ \E key \in {"default", "name"} : VariantOnSort(key)
    \/ \E mode \in {"cards", "list"} : VariantOnView(mode)
    \/ VariantReset

VariantSpec == VariantInit /\ [][VariantNext]_vars

(***************************************************************************)
(* Direct calls of the helpers, on arguments drawn from bounded sets.      *)
(***************************************************************************)
\* the records a list may hold: no field at all, strings in either case and
\* with blanks, numbers, null, formatted numbers, an empty field name
Records ==
    { <<>>,
      <<Field("papel", Str(<<"A", "b">>))>>,
      <<Field("papel", Str(<<"a">>)), Field("pl", Str(<<"b">>))>>,
      <<Field("papel", Str(<<"A", " ", "b">>)), Field("pl", Num(10, 0))>>,
      <<Field("pl", Num(-5, 1)), Field("", Null)>>,
      <<Field("", Str(<<"1", ",", "5">>))>>,
      <<Field("papel", Str(<<" ">>)), Field("pl", Str(<<"R", "$", " ", "3">>))>> }

RECURSIVE ListsOf(_)
ListsOf(n) ==
    IF n = 0 THEN {<<>>}
    ELSE LET shorter == ListsOf(n - 1)
         IN shorter \cup {Append(l, r) : l \in {x \in shorter : Len(x) = n - 1},
                                         r \in Records}

Lists == ListsOf(MaxRecords)

SearchTexts ==
    { <<>>, <<" ">>, <<"a">>, <<"A", " ">>, <<"a", "b">>, <<"a", " ", "b">>,
      <<" ", " ", "B", " ", "a">>, <<"0">>, <<"$">> }

FilterCalls == [fn : {"filterStocks"}, stocks : Lists, query : SearchTexts]

SortCalls ==
    [fn : {"sortStocks"}, stocks : Lists, column : {"", "papel", "pl"},
     direction : {"asc", "desc"}, engine : {"insertion"}]

\* the records of a list that is sorted on its column pl: numbers, text
\* that normalizes to a number (one of them to a number that is there as a
\* number too), text that does not (two of them to the same text), and a
\* record without the column
ColumnRecords ==
    { <<Field("pl", Num(3, 0))>>,
      <<Field("pl", Str(<<"3">>))>>,
      <<Field("pl", Str(<<"1", ",", "5">>))>>,
      <<Field("pl", Str(<<"a">>))>>,
      <<Field("pl", Str(<<"A">>))>>,
      <<Field("pl", Str(<<"B">>))>>,
      <<Field("papel", Str(<<"a">>))>> }

RECURSIVE ColumnListsOf(_)
ColumnListsOf(n) ==
    IF n = 0 THEN {<<>>}
    ELSE LET shorter == ColumnListsOf(n - 1)
         IN shorter \cup {Append(l, r) : l \in {x \in shorter : Len(x) = n - 1},
                                         r \in ColumnRecords}

ColumnLists == ColumnListsOf(MaxSorted)

ColumnSortCalls ==
    [fn : {"sortStocks"}, stocks : ColumnLists, column : {"pl"},
     direction : {"asc", "desc"}, engine : Engines]

ColumnCalls == [fn : {"getColumns"}, stocks : Lists]

\* the records given to the filtered memo of src/src/App.tsx: text in two
\* fields, the number 0, a record without the field pl
VariantRecords ==
    { <<Field("papel", Str(<<"a">>)), Field("pl", Str(<<"b">>))>>,
      <<Field("papel", Str(<<"A", " ", "b">>)), Field("pl", Num(0, 0))>>,
      <<Field("papel", Str(<<"b">>))>>,
      <<Field("pl", Num(10, 0)), Field("papel", Str(<<"a">>))>> }

RECURSIVE VariantListsOf(_)
VariantListsOf(n) ==
    IF n = 0 THEN {<<>>}
    ELSE LET shorter == VariantListsOf(n - 1)
         IN shorter \cup {Append(l, r) : l \in {x \in shorter : Len(x) = n - 1},
                                         r \in VariantRecords}

VariantFilterCalls ==
    [fn : {"filtered"}, stocks : VariantListsOf(MaxRecords), query : SearchTexts,
     filterKey : {"All", "papel", "pl"}]

\* the characters of the texts given to normalizeValue
TextCharacters == {"1", "0", ",", ".", "-", "a", "B", " "}

RECURSIVE TextsOf(_)
TextsOf(n) ==
    IF n = 0 THEN {<<>>}
    ELSE LET shorter == TextsOf(n - 1)
         IN shorter \cup {Append(s, c) : s \in {x \in shorter : Len(x) = n - 1},
                                         c \in TextCharacters}

\* formatted values as the endpoint gives them
Formatted ==
    { <<"R", "$", " ", "3", "8", ",", "5", "0">>,
      <<"1", "2", ".", "3", "4", "5", ",", "6", "7">>,
      <<"8", ",", "5", "%">>,
      <<"B", "a", "n", "c", "o", "s">>,
      <<"1", ".", "2", "3", "4", ".", "5", "6", "7">>,
      <<" ", "P", "E", "T", "R", "4", " ">>,
      <<"V", "A", "L", "E", "3">> }

NormalizeCalls ==
    [fn : {"normalizeValue"},
     value : {Str(s) : s \in TextsOf(MaxText) \cup Formatted}
             \cup {Num(0, 0), Num(10, 0), Num(-5, 1), Undefined, Null}]

\* stored items of every shape, with timestamps around the expiry
CacheItems ==
    {NoItem, EmptyItem, GarbageItem, JsonNullItem}
    \cup {Item("object", n, t, a, IF a THEN l ELSE <<>>) :
            n \in BOOLEAN, t \in {0, 1, 2, StartTime + 2}, a \in BOOLEAN,
            l \in {<<>>, <<StockA, StockB>>}}

CacheTimes == {StartTime, StartTime + 1}

HelperInit ==
    /\ AppInit
    /\ last = Op("init", 0, "")
    /\ ret = NoCall
    /\ \/ /\ args \in FilterCalls \cup SortCalls \cup ColumnSortCalls
                       \cup ColumnCalls \cup NormalizeCalls
                       \cup VariantFilterCalls
          /\ storage = NoItem
          /\ now = StartTime
       \/ /\ args = [fn |-> "readStocksCache"]
          /\ storage \in CacheItems
          /\ now \in CacheTimes

\* ret.given is the list handed over; args.stocks is that list after the call
CallFilterStocks ==
    /\ args.fn = "filterStocks"
    /\ ret = NoCall
    /\ ret' = [fn |-> "filterStocks", value |-> filterStocks(args.stocks, args.query),
                given |-> args.stocks]
    /\ args' = [args EXCEPT !.stocks = filterStocksArgument(args.stocks, args.query)]
    /\ UNCHANGED <<appVars, storage, now, last>>

CallSortStocks ==
    /\ args.fn = "sortStocks"
    /\ ret = NoCall
    /\ ret' = [fn |-> "sortStocks",
                value |-> sortStocksBy(args.engine, args.stocks, args.column,
                                       args.direction),
                given |-> args.stocks,
                fresh |-> ~sortStocksReturnsArgument(args.stocks, args.column,
                                                     args.direction),
                calls |-> 1,
                again |-> <<>>]
    /\ args' = [args EXCEPT !.stocks = sortStocksArgument(args.stocks, args.column,
                                                          args.direction)]
    /\ UNCHANGED <<appVars, storage, now, last>>

\* sortStocks(sortStocks(stocks, column, direction), column, direction):
\* ret.again is what the second call returns
CallSortStocksAgain ==
    /\ args.fn = "sortStocks"
    /\ ret # NoCall
    /\ ret.calls = 1
    /\ ret' = [ret EXCEPT !.calls = 2,
                          !.again = sortStocksBy(args.engine, ret.value, args.column,
                                                 args.direction)]
    /\ UNCHANGED <<appVars, storage, now, last, args>>

CallGetColumns ==
    /\ args.fn = "getColumns"
    /\ ret = NoCall
    /\ ret' = [fn |-> "getColumns", value |-> getColumns(args.stocks),
                given |-> args.stocks]
    /\ UNCHANGED <<appVars, storage, now, last, args>>

\* the filtered memo of src/src/App.tsx, before its sort
CallVariantFilter ==
    /\ args.fn = "filtered"
    /\ ret = NoCall
    /\ ret' = [fn |-> "filtered",
                value |-> VariantFilter(args.stocks, args.query, args.filterKey),
                given |-> args.stocks]
    /\ UNCHANGED <<appVars, storage, now, last, args>>

CallNormalizeValue ==
    /\ args.fn = "normalizeValue"
    /\ ret = NoCall
    /\ ret' = [fn |-> "normalizeValue", value |-> normalizeValue(args.value),
                given |-> args.value]
    /\ UNCHANGED <<appVars, storage, now, last, args>>

\* ret.found is the item that was in sessionStorage when the call was made
CallReadStocksCache ==
    /\ args.fn = "readStocksCache"
    /\ ret = NoCall
    /\ LET c == readStocksCache(storage, now)
       IN /\ ret' = [fn |-> "readStocksCache", hit |-> c.hit, value |-> c.stocks,
                     found |-> storage]
          /\ storage' = c.storage
    /\ UNCHANGED <<appVars, now, last, args>>

HelperNext ==
    \/ CallFilterStocks
    \/ CallSortStocks
    \/ CallSortStocksAgain
    \/ CallGetColumns
    \/ CallNormalizeValue
    \/ CallVariantFilter
    \/ CallReadStocksCache

HelperSpec == HelperInit /\ [][HelperNext]_vars

(***************************************************************************)
(* The sort toggle.                                                        *)
(***************************************************************************)
IsUnsorted(column) == column = ""
IsAscending(column, direction, c) == column = c /\ direction = "asc"
IsDescending(column, direction, c) == column = c /\ direction = "desc"

\* a click on column c takes the sort state through the three-state cycle
Toggles(c) ==
    /\ (IsUnsorted(sortColumn) \/ sortColumn # c)
           => IsAscending(sortColumn', sortDirection', c)
    /\ IsAscending(sortColumn, sortDirection, c)
           => IsDescending(sortColumn', sortDirection', c)
    /\ IsDescending(sortColumn, sortDirection, c)
           => IsUnsorted(sortColumn')

\* C1: a click on the header of column c leads to Ascending(c) from Unsorted
\* and from a sort on another column, to Descending(c) from Ascending(c), and
\* to Unsorted from Descending(c), for every column that has a header.
C1_ThreeStateToggle ==
    [][\A c \in {"", "papel", "pl"} :
         (last'.op = "handleSort" /\ last'.kind = c) => Toggles(c)]_vars

\* The same for the columns whose name is not the empty string.
C1_ToggleOfNamedColumns ==
    [][\A c \in {"papel", "pl"} :
         (last'.op = "handleSort" /\ last'.kind = c) => Toggles(c)]_vars

(***************************************************************************)
(* Requests.                                                               *)
(***************************************************************************)
\* C2: when a request settles that is not the one started last, the record
\* list, the error message and the cache entry stay as they are.
C2_LastRequestWins ==
    [][(last'.op = "settle" /\ last'.id < Len(reqs)) =>
         UNCHANGED <<stocks, error, storage>>]_vars

\* an earlier request has settled while the newest one is still in flight
C2_Witness ==
    /\ last.op = "settle"
    /\ last.id < Len(reqs)
    /\ reqs[Len(reqs)] = "pending"

(***************************************************************************)
(* Reading the cache.                                                      *)
(***************************************************************************)
WellFormed(item) ==
    item.kind = "object" /\ item.tsIsNumber /\ item.stocksIsArray

Age(item) == now - item.timestamp

\* C3: readStocksCache returns the stored list exactly when the entry exists,
\* is well-formed and is at most five minutes old; otherwise it returns null.
C3_HitIffFresh ==
    ret.fn = "readStocksCache" =>
        LET item == ret.found
        IN /\ ret.hit <=> (WellFormed(item) /\ Age(item) <= 5 * 60 * 1000)
           /\ ret.hit => ret.value = item.stocks

\* a well-formed entry one millisecond too old is a miss
C3_Witness ==
    /\ ret.fn = "readStocksCache"
    /\ WellFormed(ret.found)
    /\ Age(ret.found) = 5 * 60 * 1000 + 1
    /\ ~ret.hit

C4_NonEmptyBadEntriesAreDiscarded ==
    (ret.fn = "readStocksCache" /\ ret.found.kind # "empty") =>
        LET item == ret.found
            bad == /\ item.kind # "none"
                   /\ ~(WellFormed(item) /\ Age(item) <= 5 * 60 * 1000)
        IN /\ bad => (~ret.hit /\ storage = NoItem)
           /\ ~bad => storage = item

(***************************************************************************)
(* fetchStocks.                                                            *)
(***************************************************************************)
\* C5: fetchStocks issues a request exactly when it is called with
\* bypassCache (Refresh) or the cache holds no fresh well-formed entry; with
\* such an entry and no bypass it issues none, and sets the record list to
\* the cached list, loading to false and the error to empty.
C5_RequestIffBypassOrMiss ==
    [][\A op \in {"mount", "refresh"} :
         last'.op = op =>
           LET bypass == op = "refresh"
               fresh == WellFormed(storage) /\ Age(storage) <= 5 * 60 * 1000
               issued == /\ Len(reqs') = Len(reqs) + 1
                         /\ reqs'[Len(reqs')] = "pending"
           IN /\ issued <=> (bypass \/ ~fresh)
              /\ (~bypass /\ fresh) =>
                    /\ reqs' = reqs
                    /\ stocks' = storage.stocks
                    /\ loading' = FALSE
                    /\ error' = ""]_vars

\* a mount served from the cache after an earlier request had been issued
C5_Witness ==
    /\ last.op = "mount"
    /\ last.kind = "hit"
    /\ Len(reqs) > 0
    /\ stocks = storage.stocks
    /\ stocks # <<>>
    /\ ~loading

\* C6: a response with a status outside 2xx sets a non-empty error message
\* and leaves the record list and the cache alone; a 2xx response whose
\* payload is no array empties the record list, removes the cache entry and
\* leaves the error message empty.
C6_FailureAndEmptyResult ==
    [][/\ (last'.op = "settle" /\ last'.kind = "http") =>
             /\ error' # ""
             /\ UNCHANGED <<stocks, storage>>
       /\ (last'.op = "settle" /\ last'.kind = "nonArray") =>
             /\ stocks' = <<>>
             /\ storage' = NoItem
             /\ error' = ""]_vars

\* a failed refresh over a list that was fetched and cached before
C6_Witness ==
    /\ last.op = "settle"
    /\ last.kind = "http"
    /\ error # ""
    /\ stocks # <<>>
    /\ WellFormed(storage)

\* C7: whenever a fetch has been started, on mount or by Refresh, there is a
\* later time (or that very time, on a cache hit) at which loading is false
\* and the Refresh button is enabled, whatever way the requests settle.
C7_LoadingEnds ==
    (last.op \in {"mount", "refresh"}) ~> (loading = FALSE /\ ~RefreshDisabled)

\* a request has failed and the Refresh button is enabled again
C7_Witness ==
    /\ last.op = "settle"
    /\ last.kind = "network"
    /\ error # ""
    /\ mounted
    /\ ~loading
    /\ ENABLED Refresh

\* C8: the record list changes only when a request settles with a 2xx
\* response that carries JSON, or on a cache hit; no other step changes it,
\* and no render does (filterStocks and sortStocks leave their argument as
\* it was).
C8_ListChangesOnlyOnFetch ==
    [][stocks' # stocks =>
         \/ last'.op = "settle" /\ last'.kind \in {"array", "nonArray"}
         \/ last'.op = "mount" /\ last'.kind = "hit"]_vars

\* a click on a header has reordered what is shown, not the record list
C8_Witness ==
    /\ last.op = "handleSort"
    /\ stocks = <<StockA, StockB>>
    /\ query = <<>>
    /\ sortedStocks = <<StockB, StockA>>

\* The helpers leave the list they are given as it was, for every call.
C8_HelpersLeaveArgument ==
    ret.fn \in {"filterStocks", "sortStocks"} => args.stocks = ret.given

(***************************************************************************)
(* filterStocks.                                                           *)
(***************************************************************************)
\* a is b with some elements left out
RECURSIVE IsSubsequence(_, _)
IsSubsequence(a, b) ==
    IF a = <<>> THEN TRUE
    ELSE IF b = <<>> THEN FALSE
    ELSE IF Head(a) = Head(b)
         THEN IsSubsequence(Tail(a), Tail(b)) \/ IsSubsequence(a, Tail(b))
         ELSE IsSubsequence(a, Tail(b))

IsBlank(s) == \A i \in 1..Len(s) : s[i] = " "

\* C9: filterStocks(R, Q) is a subsequence of R, and it is R itself when Q
\* is empty or all blanks, records without fields included.
C9_FilterIsSubsequence ==
    ret.fn = "filterStocks" =>
        /\ IsSubsequence(ret.value, ret.given)
        /\ IsBlank(args.query) => ret.value = ret.given

\* a blank query over a list that holds a record without fields
C9_Witness ==
    /\ ret.fn = "filterStocks"
    /\ args.query = <<" ">>
    /\ \E i \in 1..Len(ret.given) : ret.given[i] = <<>>
    /\ Len(ret.given) = MaxRecords
    /\ ret.value = ret.given

\* text n occurs in text h
Contains(h, n) ==
    \E a \in 0..(Len(h) - Len(n)) : SubSeq(h, a + 1, a + Len(n)) = n

\* C10: for a query that is not blank, filterStocks keeps exactly the records
\* of which one value, as a lowercased string, contains the trimmed
\* lowercased query; text that spans two values does not count.
C10_KeepsRecordsWithMatchingValue ==
    (ret.fn = "filterStocks" /\ ~IsBlank(args.query)) =>
        LET n == ToLowerCase(Trim(args.query))
            Keeps(r) == \E i \in 1..Len(r) :
                            Contains(ToLowerCase(StringOf(r[i].value)), n)
        IN ret.value = SelectSeq(ret.given, Keeps)

\* the query "a b": the record with the values "a" and "b" is dropped, the
\* record with the value "A b" is kept
C10_Witness ==
    /\ ret.fn = "filterStocks"
    /\ args.query = <<"a", " ", "b">>
    /\ ret.given = << <<Field("papel", Str(<<"a">>)), Field("pl", Str(<<"b">>))>>,
                      <<Field("papel", Str(<<"A", " ", "b">>)), Field("pl", Num(10, 0))>> >>
    /\ ret.value = << <<Field("papel", Str(<<"A", " ", "b">>)), Field("pl", Num(10, 0))>> >>

(***************************************************************************)
(* sortStocks.                                                             *)
(***************************************************************************)
\* the normalized value of record r in the column of the call
Normalized(r) == normalizeValue(Get(r, args.column))

IsNumber(r) == Normalized(r).t = "num"
IsString(r) == Normalized(r).t = "str"

\* the comparator finds r less than q; r and q equal
Less(r, q) == JsLess(Normalized(r), Normalized(q))
Tie(r, q) == ~Less(r, q) /\ ~Less(q, r)

Elements(list) == {list[i] : i \in 1..Len(list)}

\* the column of the list mixes values that normalize to numbers with
\* values that do not
IsMixed(list) ==
    /\ \E r \in Elements(list) : IsNumber(r)
    /\ \E r \in Elements(list) : IsString(r)

\* C11: sorting the result of sortStocks again on the same column and in the
\* same direction gives that result, for mixed columns as well.
C11_SortIsIdempotent ==
    (ret.fn = "sortStocks" /\ ret.calls = 2) => ret.again = ret.value

\* The same for the columns that are not mixed.
C11_SortOfPlainColumnIsIdempotent ==
    (ret.fn = "sortStocks" /\ ret.calls = 2 /\ ~IsMixed(ret.given))
        => ret.again = ret.value

Count(list, r) == Cardinality({i \in 1..Len(list) : list[i] = r})

IsPermutation(a, b) ==
    /\ Len(a) = Len(b)
    /\ \A r \in Elements(a) \cup Elements(b) : Count(a, r) = Count(b, r)

\* the records of list that are r or q, in their order
Only(list, r, q) == SelectSeq(list, LAMBDA x : x \in {r, q})

KeepsTies(result, given) ==
    \A r, q \in Elements(given) :
        (r # q /\ Tie(r, q)) => Only(result, r, q) = Only(given, r, q)

\* C12: for a non-empty column the result is a permutation of the input in
\* which any two records that compare as equal are in the order they had in
\* the input, ascending and descending alike.
C12_SortIsStable ==
    (ret.fn = "sortStocks" /\ args.column # "") =>
        /\ IsPermutation(ret.value, ret.given)
        /\ KeepsTies(ret.value, ret.given)

\* The same for the columns that are not mixed.
C12_SortOfPlainColumnIsStable ==
    (ret.fn = "sortStocks" /\ args.column # "" /\ ~IsMixed(ret.given)) =>
        /\ IsPermutation(ret.value, ret.given)
        /\ KeepsTies(ret.value, ret.given)

NonDecreasing(list) ==
    \A i, j \in 1..Len(list) : i < j => ~Less(list[j], list[i])

NonIncreasing(list) ==
    \A i, j \in 1..Len(list) : i < j => ~Less(list[i], list[j])

\* C13: when all values of a non-empty column normalize to numbers, or all
\* to strings, the ascending result is non-decreasing in the normalized
\* value and the descending result is non-increasing.
C13_PlainColumnIsOrdered ==
    (ret.fn = "sortStocks" /\ args.column # "" /\ ~IsMixed(ret.given)) =>
        IF args.direction = "asc" THEN NonDecreasing(ret.value)
        ELSE NonIncreasing(ret.value)

\* three numbers given in ascending order have been sorted descending
C13_Witness ==
    /\ ret.fn = "sortStocks"
    /\ args.column = "pl"
    /\ args.direction = "desc"
    /\ Len(ret.given) >= 3
    /\ \A r \in Elements(ret.given) : IsNumber(r)
    /\ Less(ret.given[1], ret.given[2])
    /\ Less(ret.value[2], ret.value[1])
    /\ ret.value # ret.given

\* C14: in the ascending result over a mixed column, no record with a number
\* comes before a record with a strictly smaller number, and no record with
\* a string before a record with a strictly smaller string.
C14_MixedColumnOrdersEachType ==
    (ret.fn = "sortStocks" /\ args.column # "" /\ args.direction = "asc"
                           /\ IsMixed(ret.given)) =>
        \A i, j \in 1..Len(ret.value) :
            LET r == ret.value[i]
                q == ret.value[j]
            IN (i < j /\ IsNumber(r) = IsNumber(q)) => ~Less(q, r)

\* C15: with an empty column sortStocks returns a new list with the records
\* of the input in the order of the input, whatever the direction.
C15_EmptyColumnKeepsOrder ==
    (ret.fn = "sortStocks" /\ args.column = "") =>
        /\ ret.value = ret.given
        /\ ret.fresh

\* a descending sort on the empty column over records that have a field of
\* that name, with the larger value last
C15_Witness ==
    /\ ret.fn = "sortStocks"
    /\ args.column = ""
    /\ args.direction = "desc"
    /\ Len(ret.given) = 2
    /\ ret.given[1] = <<>>
    /\ Get(ret.given[2], "") = Str(<<"1", ",", "5">>)
    /\ ret.value = ret.given
    /\ ret.fresh

(***************************************************************************)
(* normalizeValue.                                                         *)
(***************************************************************************)
\* the text with every character dropped that is no digit, comma, dot or
\* minus
Stripped(s) ==
    SelectSeq(s, LAMBDA c : IsDigit(c) \/ c \in {",", ".", "-"})

WithoutDots(s) == SelectSeq(s, LAMBDA c : c # ".")

\* the comma as decimal point
CommaAsPoint(s) == [i \in 1..Len(s) |-> IF s[i] = "," THEN "." ELSE s[i]]

\* the rules in their order: comma and dot, comma alone, several dots
Rewritten(s) ==
    LET commas == CountOf(s, ",")
        dots == CountOf(s, ".")
    IN IF commas > 0 /\ dots > 0 THEN CommaAsPoint(WithoutDots(s))
       ELSE IF commas > 0 THEN CommaAsPoint(s)
       ELSE IF dots > 1 THEN WithoutDots(s)
       ELSE s

AllKeys(list) ==
    UNION {{list[i][j].key : j \in 1..Len(list[i])} : i \in 1..Len(list)}

\* key k occurs in record i of the list, and in no earlier one
FirstRecord(list, k) ==
    CHOOSE i \in 1..Len(list) :
        /\ \E j \in 1..Len(list[i]) : list[i][j].key = k
        /\ \A h \in 1..(i - 1) : \A j \in 1..Len(list[h]) : list[h][j].key # k

FirstField(record, k) ==
    CHOOSE j \in 1..Len(record) :
        record[j].key = k /\ \A h \in 1..(j - 1) : record[h].key # k

\* key k is seen before key l when the records are read in list order and
\* the fields of each record in order
SeenBefore(list, k, l) ==
    LET a == FirstRecord(list, k)
        b == FirstRecord(list, l)
    IN a < b \/ (a = b /\ FirstField(list[a], k) < FirstField(list[b], l))

\* C17: getColumns returns every field name that occurs in a record of the
\* list, each once, in the order in which they are first seen; the empty
\* list gives the empty sequence.
C17_ColumnsInFirstSeenOrder ==
    ret.fn = "getColumns" =>
        LET cols == ret.value
        IN /\ {cols[i] : i \in 1..Len(cols)} = AllKeys(ret.given)
           /\ \A i, j \in 1..Len(cols) : i < j =>
                  /\ cols[i] # cols[j]
                  /\ SeenBefore(ret.given, cols[i], cols[j])
           /\ ret.given = <<>> => cols = <<>>

\* two records that share one field name, as in [{a, b}, {b, c}]
C17_Witness ==
    /\ ret.fn = "getColumns"
    /\ Len(ret.given) = 2
    /\ ObjectKeys(ret.given[1]) = <<"papel", "pl">>
    /\ ObjectKeys(ret.given[2]) = <<"pl", "">>
    /\ ret.value = <<"papel", "pl", "">>

(***************************************************************************)
(* The loading flag.                                                       *)
(***************************************************************************)
\* C18: while the request that was started last is in flight, loading is
\* true; the completion of an aborted earlier request does not change that.
C18_LoadingWhileRequestInFlight ==
    (Len(reqs) > 0 /\ reqs[Len(reqs)] = "pending") => loading

\* No step but the settling of an aborted request ends loading while the
\* request that was started last is in flight.
C18_OnlyAbortedRequestsEndLoadingEarly ==
    [][(C18_LoadingWhileRequestInFlight /\ ~C18_LoadingWhileRequestInFlight')
          => (last'.op = "settle" /\ last'.kind = "abort")]_vars

(***************************************************************************)
(* The component with a field filter.                                      *)
(***************************************************************************)
\* C19: the settling of a request that was aborted leaves the error message
\* and the record list as they are, and when the request that was started
\* last succeeds, the error message is empty and the record list is the
\* payload received.
C19_AbortedRequestIsIgnored ==
    [][/\ (last'.op = "settle" /\ last'.kind = "abort")
             => UNCHANGED <<stocks, error>>
       /\ (last'.op = "settle" /\ last'.kind = "array" /\ last'.id = Len(reqs))
             => (error' = "" /\ stocks' \in Payloads)]_vars

\* the records of which the value of field key, as a string in lower case,
\* contains q
WithFieldContaining(list, key, q) ==
    SelectSeq(list, LAMBDA r : Contains(ToLowerCase(StringOf(Get(r, key))), q))

\* C20: with the field selector on "All" the filtered memo keeps the records
\* that filterStocks keeps; with a field selected it keeps exactly the
\* records whose value of that field, as a string, contains the trimmed
\* query in lower case, the value 0 and records without the field included.
C20_FieldFilter ==
    ret.fn = "filtered" =>
        IF args.filterKey = "All"
        THEN ret.value = filterStocks(ret.given, args.query)
        ELSE ret.value = WithFieldContaining(ret.given, args.filterKey,
                                             ToLowerCase(Trim(args.query)))

\* The same for the queries without a blank inside and the lists without a
\* value 0 in the field.
C20_FieldFilterWithoutBlankAndZero ==
    (/\ ret.fn = "filtered"
     /\ ~Contains(Trim(args.query), <<" ">>)
     /\ \A i \in 1..Len(ret.given) :
            Get(ret.given[i], args.filterKey) # Num(0, 0)) =>
        IF args.filterKey = "All"
        THEN ret.value = filterStocks(ret.given, args.query)
        ELSE ret.value = WithFieldContaining(ret.given, args.filterKey,
                                             ToLowerCase(Trim(args.query)))

(***************************************************************************)
(* The cache round trip.                                                   *)
(***************************************************************************)
\* the request r, still in flight and not aborted, settles with resp
Succeeds(r, resp) ==
    /\ r \in 1..Len(reqs)
    /\ reqs[r] = "pending"
    /\ resp.kind = "array"
    /\ Settle(r, resp)

\* C21: when a request succeeds with an array payload P and the write goes
\* through, storage holds P under the time of the write, and a read of it up
\* to five minutes later returns P; when the write fails, storage holds no
\* entry at all. A fetchStocks without bypass that finds an entry at most
\* five minutes old sets the record list to the list of that entry and
\* issues no request. Between the write and the read only a settling request
\* or a read changes what is stored.
C21_CacheRoundTrip ==
    [][/\ (last'.op = "settle" /\ last'.kind = "array") =>
              \A resp \in Responses :
                  Succeeds(last'.id, resp) =>
                  IF resp.quota
                  THEN storage' = NoItem
                  ELSE /\ storage' = Entry(now, resp.payload)
                       /\ \A t \in {now, now + 1, now + 5 * 60 * 1000} :
                              LET read == readStocksCache(storage', t)
                              IN read.hit /\ read.stocks = resp.payload
       /\ (last'.op = "mount" /\ WellFormed(storage)
               /\ Age(storage) <= 5 * 60 * 1000) =>
              /\ stocks' = storage.stocks
              /\ reqs' = reqs
              /\ storage' = storage
       /\ storage' # storage => last'.op \in {"settle", "mount"}]_vars

\* a payload of two records fetched from the network and written to the
\* cache is the record list again after a remount some time later
C21_Witness ==
    /\ last.op = "mount"
    /\ last.kind = "hit"
    /\ Len(reqs) > 0
    /\ \A r \in 1..Len(reqs) : reqs[r] = "done"
    /\ storage.timestamp >= StartTime
    /\ now > storage.timestamp
    /\ storage.stocks = <<StockA, StockB>>
    /\ stocks = <<StockA, StockB>>

(***************************************************************************)
(* Text labels.                                                            *)
(***************************************************************************)
IsLetter(c) ==
    Lower(c) \in {"a", "b", "c", "d", "e", "f", "g", "h", "i", "j", "k", "l", "m",
                  "n", "o", "p", "q", "r", "s", "t", "u", "v", "w", "x", "y", "z"}

HasLetter(s) == \E i \in 1..Len(s) : IsLetter(s[i])

HasDigit(s) == \E i \in 1..Len(s) : IsDigit(s[i])

\* C22: of every text that contains at least one letter, a ticker symbol such
\* as "PETR4" or "VALE3" included, normalizeValue returns the trimmed text in
\* lower case and not a number, so that a column of such labels is ordered
\* lexically.
C22_LabelsStayText ==
    (ret.fn = "normalizeValue" /\ ret.given.t = "str" /\ HasLetter(ret.given.s))
        => ret.value = Str(ToLowerCase(Trim(ret.given.s)))

\* The same for the texts that contain a letter, no digit and at most one
\* dot (with two dots or more and no comma the dots are removed, and the
\* empty text that is left parses as 0).
C22_PlainLabelsStayText ==
    (ret.fn = "normalizeValue" /\ ret.given.t = "str" /\ HasLetter(ret.given.s)
        /\ ~HasDigit(ret.given.s) /\ CountOf(ret.given.s, ".") <= 1)
        => ret.value = Str(ToLowerCase(Trim(ret.given.s)))

(***************************************************************************)
(* The sort column and the headers.                                        *)
(***************************************************************************)
HasHeader(column) == \E i \in 1..Len(columns) : columns[i] = column

\* C23: in every state of the dashboard the sort column is empty or is one
\* of the columns that getColumns derives from the list on display.
C23_SortColumnHasHeader ==
    sortColumn = "" \/ HasHeader(sortColumn)

\* Right after a click on a header the sort column is empty or has a header.
C23_ClickedColumnHasHeader ==
    last.op = "handleSort" => (sortColumn = "" \/ HasHeader(sortColumn))

(***************************************************************************)
(* The sort state.                                                         *)
(***************************************************************************)
\* C24: whatever headers are clicked, the header of a field named by the
\* empty string included, and whenever the filters are reset, the direction
\* is ascending while the sort column is empty, so the sort state is
\* Unsorted, Ascending(c) or Descending(c) with c not empty; and a reset
\* leads to Unsorted with an empty query.
C24_EmptyColumnIsAscending ==
    /\ sortColumn = "" => sortDirection = "asc"
    /\ last.op = "handleReset" =>
           (sortColumn = "" /\ sortDirection = "asc" /\ query = <<>>)

\* A reset leads to Unsorted with an empty query, and a click on a header
\* with a name that is not empty leaves the direction ascending when it
\* leaves the sort column empty.
C24_ResetLeadsToUnsorted ==
    [][/\ last'.op = "handleReset" =>
             (sortColumn' = "" /\ sortDirection' = "asc" /\ query' = <<>>)
       /\ (last'.op = "handleSort" /\ last'.kind # "" /\ sortColumn' = "") =>
             sortDirection' = "asc"]_vars

====
